---- MODULE Spec2Model ----
(***************************************************************************)
(* Model of lib/mapping/query-generator.js (class QueryGenerator).         *)
(*                                                                         *)
(* Representation.                                                         *)
(*  - A query text is a sequence of lexical tokens (strings): keywords,    *)
(*    identifiers, "=", ",", "(", ")" and the placeholder "?".  String     *)
(*    concatenation is \o, Array.join is Join.                             *)
(*  - The script text handed to vm.Script is the sequence of the tokens    *)
(*    that stand between "return [" and "]": accessor expressions and      *)
(*    the separator ", ".  ArrayLiteral gives the JavaScript meaning of    *)
(*    that array literal (elisions are holes, one trailing comma is        *)
(*    dropped) and RunGetter evaluates it on a document.                   *)
(*  - A JavaScript value is a node [kind, key, inverted, hasChildValues,   *)
(*    isInOperator, value] with value a sequence of nodes.                 *)
(***************************************************************************)
EXTENDS Integers, Sequences, FiniteSets, TLC

VARIABLES
  op,          \* the entry point called: "select", "insert", "update", "delete"
  args,        \* the arguments of the call
  pc,          \* "call" before the entry point ran, "done" after
  query,       \* the query text returned (token sequence)
  script,      \* the body of the array literal of the generated getter
  isIdempotent,
  isCounter

vars == <<op, args, pc, query, script, isIdempotent, isCounter>>

(***************************************************************************)
(* Bounds of the explored inputs.                                          *)
(***************************************************************************)
MaxBindings == 2   \* longest propertiesInfo list
MaxWhen == 1       \* longest when list of an UPDATE / DELETE
MaxDepth == 2      \* deepest nesting of a QueryOperator with child values

(***************************************************************************)
(* JavaScript values.                                                      *)
(***************************************************************************)
Node(k, key, inv, hc, isIn, val) ==
  [kind |-> k, key |-> key, inverted |-> inv, hasChildValues |-> hc,
   isInOperator |-> isIn, value |-> val]

Undefined == Node("undefined", "", FALSE, FALSE, FALSE, <<>>)
\* a literal payload, named so that two payloads are told apart
Lit(name) == Node("lit", name, FALSE, FALSE, FALSE, <<>>)
Num(name) == Node("number", name, FALSE, FALSE, FALSE, <<>>)
Arr(items) == Node("array", "", FALSE, FALSE, FALSE, items)
\* what mappingInfo.getFromModelFn(propName) returns, applied to v
Converted(propName, v) == Node("converted", propName, FALSE, FALSE, FALSE, <<v>>)

\* q.gt(v), q.lt(v), ...: new QueryOperator(key, value)
QueryOperator(key, v) == Node("QueryOperator", key, FALSE, FALSE, FALSE, <<v>>)
\* q.in_(arr): new QueryOperator('IN', arr, false, true)
QueryOperatorIn(items) == Node("QueryOperator", "IN", FALSE, FALSE, TRUE, <<Arr(items)>>)
\* q.and(a, b), q.or(a, b): new QueryOperator(key, [a, b], true)
QueryOperatorPair(key, a, b) == Node("QueryOperator", key, FALSE, TRUE, FALSE, <<a, b>>)
\* q.append, q.prepend, q.incr, q.decr, q.remove: new QueryAssignment(sign, value, inverted)
QueryAssignment(sign, v, inverted) == Node("QueryAssignment", sign, inverted, FALSE, FALSE, <<v>>)

True == Node("boolean", "true", FALSE, FALSE, FALSE, <<>>)
False == Node("boolean", "false", FALSE, FALSE, FALSE, <<>>)
\* ToBoolean of the values used here (no 0, "", null or NaN among them)
Truthy(v) == v # Undefined /\ v # False

IsQueryOperator(v) == v.kind = "QueryOperator"
IsQueryAssignment(v) == v.kind = "QueryAssignment"
IsNumber(v) == v.kind = "number"

\* property read  v.value
GetValue(v) ==
  IF v.kind \in {"QueryOperator", "QueryAssignment"}
    THEN IF v.hasChildValues THEN Arr(v.value) ELSE v.value[1]
    ELSE Undefined

\* element read  v[i]  (i counted from 0)
GetIndex(v, i) ==
  IF v.kind = "array" /\ i + 1 <= Len(v.value) THEN v.value[i + 1] ELSE Undefined

(***************************************************************************)
(* Strings as token sequences.                                             *)
(***************************************************************************)
RECURSIVE Join(_, _)
\* Array.prototype.join: parts separated by sep, "" for the empty array
Join(parts, sep) ==
  IF parts = <<>> THEN <<>>
  ELSE IF Len(parts) = 1 THEN parts[1]
  ELSE parts[1] \o sep \o Join(Tail(parts), sep)

\* Array.prototype.filter, keeping the order
Filter(s, Keep(_)) == SelectSeq(s, Keep)

Map(s, F(_)) == [i \in 1..Len(s) |-> F(s[i])]

(***************************************************************************)
(* The table metadata and the types module.                                *)
(***************************************************************************)
dataTypes == [list |-> "list", counter |-> "counter", int |-> "int", text |-> "text"]

\* table.columnsByName[c] is the column type code; a name outside the
\* domain reads as undefined.  "ck" is a frozen list used as clustering key.
Table ==
  [name |-> "t",
   columnsByName |-> [c \in {"id", "ck", "name", "items", "count"} |->
                        CASE c = "id" -> dataTypes.int
                          [] c = "ck" -> dataTypes.list
                          [] c = "name" -> dataTypes.text
                          [] c = "items" -> dataTypes.list
                          [] c = "count" -> dataTypes.counter],
   partitionKeys |-> <<"id">>,
   clusteringKeys |-> <<"ck">>]

Keyspace == "ks"

\* `${keyspace}.${tableName}`
TableRef(keyspace, tableName) == <<keyspace, ".", tableName>>

InSchema(table, columnName) == columnName \in DOMAIN table.columnsByName

\* new Set(table.partitionKeys.concat(table.clusteringKeys).map(c => c.name))
PrimaryKeys(table) ==
  {(table.partitionKeys \o table.clusteringKeys)[i] :
     i \in 1..Len(table.partitionKeys \o table.clusteringKeys)}

(***************************************************************************)
(* Tokens of the generated getter.                                         *)
(***************************************************************************)
\* an accessor expression: objectName['prop'] followed by property and
\* element reads, possibly wrapped in a conversion call
Token(tk, obj, prop, path, conv, convProp) ==
  [tk |-> tk, obj |-> obj, prop |-> prop, path |-> path, conv |-> conv,
   convProp |-> convProp]
\* `${objectName}['${prop}']` followed by the reads of path
Expr(obj, prop, path) == Token("expr", obj, prop, path, "none", "")
\* the separator ", "
Comma == Token("comma", "", "", <<>>, "", "")
\* an elided element of an array literal
Hole == Token("hole", "", "", <<>>, "", "")

\* `mappingInfo.getFromModelFn('${propName}')(${valueGetter})`
_getMappingFunctionCall(propName, valueGetter) ==
  Token("expr", valueGetter.obj, valueGetter.prop, valueGetter.path, "call", propName)

\* `${valueGetter}.map(v => ${_getMappingFunctionCall(propName, "v")})`
MapMappingFunctionCall(propName, valueGetter) ==
  Token("expr", valueGetter.obj, valueGetter.prop, valueGetter.path, "map", propName)

\* _valueGetterSingle emitting the second child of a pair before the first
RECURSIVE _valueGetterSingle_RightFirst(_, _, _, _)
_valueGetterSingle_RightFirst(prefix, propName, value, fromModelFn) ==
  IF IsQueryOperator(value) /\ value.hasChildValues
    THEN _valueGetterSingle_RightFirst(Expr(prefix.obj, prefix.prop, prefix.path \o <<".value", "[1]">>),
                                       propName, value.value[2], fromModelFn)
         \o <<Comma>> \o
         _valueGetterSingle_RightFirst(Expr(prefix.obj, prefix.prop, prefix.path \o <<".value", "[0]">>),
                                       propName, value.value[1], fromModelFn)
  ELSE LET valueGetter ==
             IF IsQueryOperator(value)
               THEN Expr(prefix.obj, prefix.prop, prefix.path \o <<".value">>)
               ELSE prefix
       IN IF IsQueryOperator(value) /\ value.isInOperator /\ fromModelFn
            THEN <<MapMappingFunctionCall(propName, valueGetter)>>
          ELSE IF ~fromModelFn
            THEN <<valueGetter>>
          ELSE <<_getMappingFunctionCall(propName, valueGetter)>>

RECURSIVE _valueGetterSingle(_, _, _, _)
_valueGetterSingle(prefix, propName, value, fromModelFn) ==
  IF IsQueryOperator(value) /\ value.hasChildValues
    THEN _valueGetterSingle(Expr(prefix.obj, prefix.prop, prefix.path \o <<".value", "[0]">>),
                            propName, value.value[1], fromModelFn)
         \o <<Comma>> \o
         _valueGetterSingle(Expr(prefix.obj, prefix.prop, prefix.path \o <<".value", "[1]">>),
                            propName, value.value[2], fromModelFn)
  ELSE LET valueGetter ==
             IF IsQueryOperator(value)
               THEN Expr(prefix.obj, prefix.prop, prefix.path \o <<".value">>)
               ELSE prefix
       IN IF IsQueryOperator(value) /\ value.isInOperator /\ fromModelFn
            THEN <<MapMappingFunctionCall(propName, valueGetter)>>
          ELSE IF ~fromModelFn
            THEN <<valueGetter>>
          ELSE <<_getMappingFunctionCall(propName, valueGetter)>>

_valueGetterExpression(propertiesInfo, objectName) ==
  Join(Map(propertiesInfo,
           LAMBDA p : _valueGetterSingle(Expr(objectName, p.propertyName, <<>>),
                                         p.propertyName, p.value, p.fromModel)),
       <<Comma>>)

\* _assignmentGetterExpression reading the bound object itself, never its .value
_assignmentGetterExpression_Wrapper(propertiesInfo, prefix) ==
  Join(Map(propertiesInfo,
           LAMBDA p :
             IF p.fromModel
               THEN <<_getMappingFunctionCall(p.propertyName, Expr(prefix, p.propertyName, <<>>))>>
               ELSE <<Expr(prefix, p.propertyName, <<>>)>>),
       <<Comma>>)

_assignmentGetterExpression(propertiesInfo, prefix) ==
  Join(Map(propertiesInfo,
           LAMBDA p :
             LET valueGetter ==
                   Expr(prefix, p.propertyName,
                        IF IsQueryAssignment(p.value) THEN <<".value">> ELSE <<>>)
             IN IF p.fromModel
                  THEN <<_getMappingFunctionCall(p.propertyName, valueGetter)>>
                  ELSE <<valueGetter>>),
       <<Comma>>)

RECURSIVE _getSingleCondition(_, _)
_getSingleCondition(columnName, value) ==
  IF IsQueryOperator(value)
    THEN IF value.hasChildValues
           THEN _getSingleCondition(columnName, value.value[1])
                \o <<value.key>> \o
                _getSingleCondition(columnName, value.value[2])
           ELSE <<columnName, value.key, "?">>
    ELSE <<columnName, "=", "?">>

_getConditionWithOperators(propertiesInfo) ==
  Join(Map(propertiesInfo, LAMBDA p : _getSingleCondition(p.columnName, p.value)),
       <<"AND">>)

(***************************************************************************)
(* SELECT                                                                  *)
(***************************************************************************)
\* getSelect appending the directive only when allowFilter is true
getSelect_HonoursAllowFilter(tableName, keyspace, propertiesInfo, fieldsInfo, orderByColumns, allowFilter, limit) ==
  <<"SELECT">>
  \o (IF Len(fieldsInfo) > 0
        THEN Join(Map(fieldsInfo, LAMBDA p : <<p.columnName>>), <<",">>)
        ELSE <<"*">>)
  \o <<"FROM">> \o TableRef(keyspace, tableName)
  \o (IF Len(propertiesInfo) > 0
        THEN <<"WHERE">> \o _getConditionWithOperators(propertiesInfo)
        ELSE <<>>)
  \o (IF Len(orderByColumns) > 0
        THEN <<"ORDER BY">> \o Join(Map(orderByColumns, LAMBDA order : <<order[1], order[2]>>), <<",">>)
        ELSE <<>>)
  \o (IF IsNumber(limit) THEN <<"LIMIT", "?">> ELSE <<>>)
  \o (IF allowFilter = True THEN <<"ALLOW FILTERING">> ELSE <<>>)

getSelect(tableName, keyspace, propertiesInfo, fieldsInfo, orderByColumns, allowFilter, limit) ==
  <<"SELECT">>
  \o (IF Len(fieldsInfo) > 0
        THEN Join(Map(fieldsInfo, LAMBDA p : <<p.columnName>>), <<",">>)
        ELSE <<"*">>)
  \o <<"FROM">> \o TableRef(keyspace, tableName)
  \o (IF Len(propertiesInfo) > 0
        THEN <<"WHERE">> \o _getConditionWithOperators(propertiesInfo)
        ELSE <<>>)
  \o (IF Len(orderByColumns) > 0
        THEN <<"ORDER BY">> \o Join(Map(orderByColumns, LAMBDA order : <<order[1], order[2]>>), <<",">>)
        ELSE <<>>)
  \o (IF IsNumber(limit) THEN <<"LIMIT", "?">> ELSE <<>>)
  \o <<"ALLOW FILTERING">>

\* selectParamsGetter without the test of propertiesInfo.length before ", "
selectParamsGetter_AlwaysComma(propertiesInfo, limit) ==
  _valueGetterExpression(propertiesInfo, "doc")
  \o (IF IsNumber(limit) THEN <<Comma, Expr("docInfo", "limit", <<>>)>> ELSE <<>>)

selectParamsGetter(propertiesInfo, limit) ==
  _valueGetterExpression(propertiesInfo, "doc")
  \o (IF IsNumber(limit)
        THEN (IF Len(propertiesInfo) > 0 THEN <<Comma>> ELSE <<>>)
             \o <<Expr("docInfo", "limit", <<>>)>>
        ELSE <<>>)

(***************************************************************************)
(* INSERT                                                                  *)
(***************************************************************************)
\* docInfo && docInfo.x
DocInfoField(docInfo, field) ==
  IF docInfo.present THEN docInfo[field] ELSE Undefined

_getInsertQuery(tableName, keyspace, propertiesInfo, ifNotExists, ttl, allowFilter) ==
  <<"INSERT INTO">> \o TableRef(keyspace, tableName) \o <<"(">>
  \o Join(Map(propertiesInfo, LAMBDA pInfo : <<pInfo.columnName>>), <<",">>)
  \o <<")", "VALUES", "(">>
  \o Join(Map(propertiesInfo, LAMBDA pInfo : <<"?">>), <<",">>)
  \o <<")">>
  \o (IF ifNotExists = True THEN <<"IF NOT EXISTS">> ELSE <<>>)
  \o (IF IsNumber(ttl) THEN <<"USING TTL", "?">> ELSE <<>>)

_insertParamsGetter(propertiesInfo, docInfo) ==
  _valueGetterExpression(propertiesInfo, "doc")
  \o (IF docInfo.present /\ IsNumber(docInfo.ttl)
        THEN <<Comma, Expr("docInfo", "ttl", <<>>)>>
        ELSE <<>>)

\* getInsert with the getter built on the unfiltered list
getInsert_GetterUnfiltered(table, keyspace, propertiesInfo, docInfo, ifNotExists, allowFilter) ==
  LET ttl == DocInfoField(docInfo, "ttl")
      filteredPropertiesInfo ==
        Filter(propertiesInfo, LAMBDA pInfo : InSchema(table, pInfo.columnName))
  IN [query |-> _getInsertQuery(table.name, keyspace, filteredPropertiesInfo,
                                ifNotExists, ttl, allowFilter),
      paramsGetter |-> _insertParamsGetter(propertiesInfo, docInfo),
      isIdempotent |-> ~Truthy(ifNotExists),
      isCounter |-> FALSE]

getInsert(table, keyspace, propertiesInfo, docInfo, ifNotExists, allowFilter) ==
  LET ttl == DocInfoField(docInfo, "ttl")
      filteredPropertiesInfo ==
        Filter(propertiesInfo, LAMBDA pInfo : InSchema(table, pInfo.columnName))
  IN [query |-> _getInsertQuery(table.name, keyspace, filteredPropertiesInfo,
                                ifNotExists, ttl, allowFilter),
      paramsGetter |-> _insertParamsGetter(filteredPropertiesInfo, docInfo),
      isIdempotent |-> ~Truthy(ifNotExists),
      isCounter |-> FALSE]

(***************************************************************************)
(* UPDATE                                                                  *)
(***************************************************************************)
\* the filter callback with the flags assigned anew for every surviving column
RECURSIVE UpdateFilterFlags_Reassigned(_, _, _)
UpdateFilterFlags_Reassigned(table, propertiesInfo, flags) ==
  IF propertiesInfo = <<>> THEN flags
  ELSE LET pInfo == propertiesInfo[1]
           rest == Tail(propertiesInfo)
       IN IF ~InSchema(table, pInfo.columnName)
            THEN UpdateFilterFlags_Reassigned(table, rest, flags)
          ELSE IF table.columnsByName[pInfo.columnName] = dataTypes.list
                  /\ IsQueryAssignment(pInfo.value)
            THEN UpdateFilterFlags_Reassigned(table, rest,
                   [isIdempotent |-> FALSE, isCounter |-> flags.isCounter])
          ELSE IF table.columnsByName[pInfo.columnName] = dataTypes.counter
            THEN UpdateFilterFlags_Reassigned(table, rest,
                   [isIdempotent |-> FALSE, isCounter |-> TRUE])
          ELSE UpdateFilterFlags_Reassigned(table, rest,
                   [isIdempotent |-> TRUE, isCounter |-> FALSE])

\* the callback of propertiesInfo.filter in getUpdate, run over the list in
\* order: flags is the pair of closure variables it assigns
RECURSIVE UpdateFilterFlags(_, _, _)
UpdateFilterFlags(table, propertiesInfo, flags) ==
  IF propertiesInfo = <<>> THEN flags
  ELSE LET pInfo == propertiesInfo[1]
           rest == Tail(propertiesInfo)
       IN IF ~InSchema(table, pInfo.columnName)
            THEN UpdateFilterFlags(table, rest, flags)
          ELSE IF table.columnsByName[pInfo.columnName] = dataTypes.list
                  /\ IsQueryAssignment(pInfo.value)
            THEN UpdateFilterFlags(table, rest,
                   [isIdempotent |-> FALSE, isCounter |-> flags.isCounter])
          ELSE IF table.columnsByName[pInfo.columnName] = dataTypes.counter
            THEN UpdateFilterFlags(table, rest,
                   [isIdempotent |-> FALSE, isCounter |-> TRUE])
          ELSE UpdateFilterFlags(table, rest, flags)

\* the SET assignment with a plain value written into the text
UpdateAssignment_InlinesValue(p) ==
  IF IsQueryAssignment(p.value)
    THEN IF p.value.inverted
           THEN <<p.columnName, "=", "?", p.value.key, p.columnName>>
           ELSE <<p.columnName, "=", p.columnName, p.value.key, "?">>
    ELSE <<p.columnName, "=", p.value.key>>

\* one SET assignment
UpdateAssignment(p) ==
  IF IsQueryAssignment(p.value)
    THEN IF p.value.inverted
           THEN <<p.columnName, "=", "?", p.value.key, p.columnName>>
           ELSE <<p.columnName, "=", p.columnName, p.value.key, "?">>
    ELSE <<p.columnName, "=", "?">>

_getUpdateQuery(tableName, keyspace, primaryKeys, propertiesInfo, when, ifExists, allowFilter, ttl) ==
  <<"UPDATE">> \o TableRef(keyspace, tableName)
  \o (IF IsNumber(ttl) THEN <<"USING TTL", "?">> ELSE <<>>)
  \o <<"SET">>
  \o Join(Map(Filter(propertiesInfo, LAMBDA p : p.columnName \notin primaryKeys),
              UpdateAssignment),
          <<",">>)
  \o <<"WHERE">>
  \o Join(Map(Filter(propertiesInfo, LAMBDA p : p.columnName \in primaryKeys),
              LAMBDA p : <<p.columnName, "=", "?">>),
          <<"AND">>)
  \o (IF ifExists = True THEN <<"IF EXISTS">>
      ELSE IF Len(when) > 0 THEN <<"IF">> \o _getConditionWithOperators(when)
      ELSE <<>>)

_updateParamsGetter(primaryKeys, propertiesInfo, when, ttl) ==
  (IF IsNumber(ttl) THEN <<Expr("docInfo", "ttl", <<>>), Comma>> ELSE <<>>)
  \o _assignmentGetterExpression(
       Filter(propertiesInfo, LAMBDA p : p.columnName \notin primaryKeys), "doc")
  \o <<Comma>>
  \o _valueGetterExpression(
       Filter(propertiesInfo, LAMBDA p : p.columnName \in primaryKeys), "doc")
  \o (IF Len(when) > 0
        THEN <<Comma>> \o _valueGetterExpression(when, "docInfo.when")
        ELSE <<>>)

\* getUpdate hands (..., when, ifExists, ttl, allowFilter) to _getUpdateQuery,
\* whose parameters are declared (..., when, ifExists, allowFilter, ttl)
getUpdate(table, keyspace, propertiesInfo, docInfo, when, ifExists, allowFilter) ==
  LET ttl == DocInfoField(docInfo, "ttl")
      primaryKeys == PrimaryKeys(table)
      flags == UpdateFilterFlags(table, propertiesInfo,
                                 [isIdempotent |-> TRUE, isCounter |-> FALSE])
      filteredPropertiesInfo ==
        Filter(propertiesInfo, LAMBDA pInfo : InSchema(table, pInfo.columnName))
  IN [query |-> _getUpdateQuery(table.name, keyspace, primaryKeys, filteredPropertiesInfo,
                                when, ifExists, ttl, allowFilter),
      paramsGetter |-> _updateParamsGetter(primaryKeys, filteredPropertiesInfo, when, ttl),
      isIdempotent |-> flags.isIdempotent /\ Len(when) = 0 /\ ~Truthy(ifExists),
      isCounter |-> flags.isCounter]

(***************************************************************************)
(* DELETE                                                                  *)
(***************************************************************************)
\* _getDeleteQuery listing every surviving column, the key columns too
_getDeleteQuery_ListsKeys(tableName, keyspace, primaryKeys, propertiesInfo, when, ifExists, deleteOnlyColumns) ==
  LET columnsToDelete ==
        Join(Map(propertiesInfo, LAMBDA p : <<p.columnName>>), <<",">>)
  IN <<"DELETE">>
     \o (IF Truthy(deleteOnlyColumns) /\ columnsToDelete # <<>>
           THEN columnsToDelete ELSE <<>>)
     \o <<"FROM">> \o TableRef(keyspace, tableName) \o <<"WHERE">>
     \o Join(Map(Filter(propertiesInfo, LAMBDA p : p.columnName \in primaryKeys),
                 LAMBDA p : <<p.columnName, "=", "?">>),
             <<"AND">>)
     \o (IF ifExists = True THEN <<"IF EXISTS">>
         ELSE IF Len(when) > 0 THEN <<"IF">> \o _getConditionWithOperators(when)
         ELSE <<>>)

_getDeleteQuery(tableName, keyspace, primaryKeys, propertiesInfo, when, ifExists, deleteOnlyColumns) ==
  LET columnsToDelete ==
        Join(Map(Filter(propertiesInfo, LAMBDA p : p.columnName \notin primaryKeys),
                 LAMBDA p : <<p.columnName>>),
             <<",">>)
  IN <<"DELETE">>
     \o (IF Truthy(deleteOnlyColumns) /\ columnsToDelete # <<>>
           THEN columnsToDelete ELSE <<>>)
     \o <<"FROM">> \o TableRef(keyspace, tableName) \o <<"WHERE">>
     \o Join(Map(Filter(propertiesInfo, LAMBDA p : p.columnName \in primaryKeys),
                 LAMBDA p : <<p.columnName, "=", "?">>),
             <<"AND">>)
     \o (IF ifExists = True THEN <<"IF EXISTS">>
         ELSE IF Len(when) > 0 THEN <<"IF">> \o _getConditionWithOperators(when)
         ELSE <<>>)

_deleteParamsGetter(primaryKeys, propertiesInfo, when) ==
  _valueGetterExpression(
    Filter(propertiesInfo, LAMBDA p : p.columnName \in primaryKeys), "doc")
  \o (IF Len(when) > 0
        THEN <<Comma>> \o _valueGetterExpression(when, "docInfo.when")
        ELSE <<>>)

\* getDelete with isIdempotent decided by the when list alone
getDelete_IgnoresIfExists(table, keyspace, propertiesInfo, docInfo, when, ifExists) ==
  LET deleteOnlyColumns == DocInfoField(docInfo, "deleteOnlyColumns")
      primaryKeys == PrimaryKeys(table)
      filteredPropertiesInfo ==
        Filter(propertiesInfo, LAMBDA pInfo : InSchema(table, pInfo.columnName))
  IN [query |-> _getDeleteQuery(table.name, keyspace, primaryKeys, filteredPropertiesInfo,
                                when, ifExists, deleteOnlyColumns),
      paramsGetter |-> _deleteParamsGetter(primaryKeys, filteredPropertiesInfo, when),
      isIdempotent |-> Len(when) = 0,
      isCounter |-> FALSE]

getDelete(table, keyspace, propertiesInfo, docInfo, when, ifExists) ==
  LET deleteOnlyColumns == DocInfoField(docInfo, "deleteOnlyColumns")
      primaryKeys == PrimaryKeys(table)
      filteredPropertiesInfo ==
        Filter(propertiesInfo, LAMBDA pInfo : InSchema(table, pInfo.columnName))
  IN [query |-> _getDeleteQuery(table.name, keyspace, primaryKeys, filteredPropertiesInfo,
                                when, ifExists, deleteOnlyColumns),
      paramsGetter |-> _deleteParamsGetter(primaryKeys, filteredPropertiesInfo, when),
      isIdempotent |-> Len(when) = 0 /\ ~Truthy(ifExists),
      isCounter |-> FALSE]

(***************************************************************************)
(* Running a generated getter.                                             *)
(***************************************************************************)
\* The elements of the array literal [ tokens ]: a comma that follows an
\* element separates, any other comma is an elision and leaves a hole, so a
\* single trailing comma adds nothing (ECMAScript ArrayLiteral).
RECURSIVE ArrayLiteral(_, _)
ArrayLiteral(tokens, afterElement) ==
  IF tokens = <<>> THEN <<>>
  ELSE IF tokens[1].tk = "comma"
    THEN IF afterElement
           THEN ArrayLiteral(Tail(tokens), FALSE)
           ELSE <<Hole>> \o ArrayLiteral(Tail(tokens), FALSE)
  ELSE <<tokens[1]>> \o ArrayLiteral(Tail(tokens), TRUE)

\* obj['prop'] on an object built from a list of bindings
RECURSIVE ReadProperty(_, _)
ReadProperty(bindings, prop) ==
  IF bindings = <<>> THEN Undefined
  ELSE IF bindings[1].propertyName = prop THEN bindings[1].value
  ELSE ReadProperty(Tail(bindings), prop)

RECURSIVE ReadPath(_, _)
ReadPath(v, path) ==
  IF path = <<>> THEN v
  ELSE IF path[1] = ".value" THEN ReadPath(GetValue(v), Tail(path))
  ELSE IF path[1] = "[0]" THEN ReadPath(GetIndex(v, 0), Tail(path))
  ELSE ReadPath(GetIndex(v, 1), Tail(path))

\* the value of one slot of the array for the call (doc, docInfo, mappingInfo)
EvalSlot(e, doc, docInfo) ==
  IF e.tk = "hole" THEN Node("hole", "", FALSE, FALSE, FALSE, <<>>)
  ELSE LET root == IF e.obj = "doc" THEN ReadProperty(doc, e.prop)
                   ELSE IF e.obj = "docInfo.when" THEN ReadProperty(docInfo.when, e.prop)
                   ELSE DocInfoField(docInfo, e.prop)
           v == ReadPath(root, e.path)
       IN IF e.conv = "call" THEN Converted(e.convProp, v)
          ELSE IF e.conv = "map"
            THEN IF v.kind = "array"
                   THEN Arr(Map(v.value, LAMBDA x : Converted(e.convProp, x)))
                   ELSE Node("TypeError", "", FALSE, FALSE, FALSE, <<>>)
          ELSE v

\* paramsGetter(doc, docInfo, mappingInfo)
RunGetter(scriptTokens, doc, docInfo) ==
  Map(ArrayLiteral(scriptTokens, FALSE), LAMBDA e : EvalSlot(e, doc, docInfo))

(***************************************************************************)
(* The calls explored.                                                     *)
(***************************************************************************)
PropertyOf(columnName) == columnName \o "Prop"

Binding(columnName, value, fromModel) ==
  [columnName |-> columnName, propertyName |-> PropertyOf(columnName),
   value |-> value, fromModel |-> fromModel]

\* the payload held under a property; tag tells the leaves of one value apart
Payload(columnName, tag) == Lit(PropertyOf(columnName) \o tag)

Plain(c) == Payload(c, "")
qAppend(c) == QueryAssignment("+", Payload(c, ""), FALSE)
qPrepend(c) == QueryAssignment("+", Payload(c, ""), TRUE)
qDecr(c) == QueryAssignment("-", Payload(c, ""), FALSE)
qGt(c) == QueryOperator(">", Payload(c, ">"))
qLt(c) == QueryOperator("<", Payload(c, "<"))
qIn(c) == QueryOperatorIn(<<Payload(c, "[0]"), Payload(c, "[1]")>>)

UnknownColumn == "zz"
DocColumns == DOMAIN Table.columnsByName \cup {UnknownColumn}

\* the bindings a document property can give for a column
DocBindings(c) ==
  CASE c = "id" -> {Binding(c, Plain(c), FALSE), Binding(c, Plain(c), TRUE)}
    [] c = "ck" -> {Binding(c, Plain(c), FALSE), Binding(c, qPrepend(c), FALSE)}
    [] c = "name" -> {Binding(c, Plain(c), FALSE), Binding(c, Plain(c), TRUE)}
    [] c = "items" -> {Binding(c, Plain(c), FALSE), Binding(c, qAppend(c), TRUE),
                       Binding(c, qPrepend(c), FALSE)}
    [] c = "count" -> {Binding(c, qAppend(c), FALSE), Binding(c, qDecr(c), TRUE)}
    [] OTHER -> {Binding(c, qAppend(c), TRUE)}

\* lists of at most n bindings taken from from[c], on pairwise different columns
RECURSIVE BindingLists(_, _, _)
BindingLists(columns, from, n) ==
  {<<>>} \cup
  (IF n = 0 THEN {}
   ELSE UNION {UNION {{<<b>> \o rest : rest \in BindingLists(columns \ {c}, from, n - 1)} :
                        b \in from[c]} :
                 c \in columns})

DocBindingLists == BindingLists(DocColumns, [c \in DocColumns |-> DocBindings(c)], MaxBindings)

\* comparison values on column c nested at most d deep
RECURSIVE CondValues(_, _)
CondValues(c, d) ==
  IF d = 0 THEN {qGt(c), qIn(c)}
  ELSE CondValues(c, d - 1) \cup
       {QueryOperatorPair("OR", a, b) : a, b \in CondValues(c, d - 1)}

\* SELECT is explored on one binding with a value of any nesting, and on
\* lists of bindings with plain and scalar values
WhereColumns == {"id", "name", "items"}
DeepWhereLists ==
  {<<Binding("name", v, fm)>> : v \in CondValues("name", MaxDepth), fm \in BOOLEAN}
FlatWhereLists ==
  BindingLists(WhereColumns,
               [c \in WhereColumns |->
                  {Binding(c, v, fm) : v \in {Plain(c), qGt(c), qIn(c)}, fm \in BOOLEAN}],
               MaxBindings)

\* the when lists: the entries of one docInfo.when object, at most MaxWhen of them
WhenCandidates ==
  <<Binding("name", QueryOperatorPair("AND", qGt("name"), qLt("name")), FALSE),
    Binding("items", qIn("items"), TRUE),
    Binding("count", Plain("count"), TRUE)>>
WhenLists ==
  {SelectSeq(WhenCandidates, LAMBDA b : b.columnName \in S) :
     S \in {T \in SUBSET {"name", "items", "count"} : Cardinality(T) <= MaxWhen}}

DocInfo(present, ttl, limit, when, deleteOnlyColumns) ==
  [present |-> present, ttl |-> ttl, limit |-> limit, when |-> when,
   deleteOnlyColumns |-> deleteOnlyColumns]

Args(propertiesInfo, docInfo, ifExists, ifNotExists, allowFilter, fieldsInfo, orderByColumns) ==
  [propertiesInfo |-> propertiesInfo, docInfo |-> docInfo, when |-> docInfo.when,
   ifExists |-> ifExists, ifNotExists |-> ifNotExists, allowFilter |-> allowFilter,
   fieldsInfo |-> fieldsInfo, orderByColumns |-> orderByColumns,
   limit |-> docInfo.limit]

Flag == {Undefined, True, False}

\* projection, ordering and allowFilter of the SELECT calls
SelectShapes ==
  {<<fieldsInfo, orderByColumns, allowFilter>> :
     fieldsInfo \in {<<>>, <<[columnName |-> "id"], [columnName |-> "name"]>>},
     orderByColumns \in {<<>>, <<<<"ck", "DESC">>>>, <<<<"ck", "ASC">>, <<"name", "DESC">>>>},
     allowFilter \in Flag}

SelectArgs ==
  {Args(w, DocInfo(TRUE, Undefined, limit, <<>>, Undefined), Undefined, Undefined,
        Undefined, <<>>, <<>>) :
     w \in DeepWhereLists, limit \in {Undefined, Num("limit")}}
  \cup
  {Args(w, DocInfo(TRUE, Undefined, limit, <<>>, Undefined), Undefined, Undefined,
        shape[3], shape[1], shape[2]) :
     w \in FlatWhereLists, limit \in {Undefined, Num("limit")}, shape \in SelectShapes}

InsertArgs ==
  {Args(props, docInfo, Undefined, ifNotExists, allowFilter, <<>>, <<>>) :
     props \in DocBindingLists,
     docInfo \in {DocInfo(FALSE, Undefined, Undefined, <<>>, Undefined),
                  DocInfo(TRUE, Undefined, Undefined, <<>>, Undefined),
                  DocInfo(TRUE, Num("ttl"), Undefined, <<>>, Undefined)},
     ifNotExists \in Flag, allowFilter \in {Undefined, True}}

UpdateArgs ==
  {Args(props, DocInfo(TRUE, ttl, Undefined, when, Undefined), ifExists, Undefined,
        allowFilter, <<>>, <<>>) :
     props \in DocBindingLists, ttl \in {Undefined, Num("ttl")}, when \in WhenLists,
     ifExists \in Flag, allowFilter \in {Undefined, True}}

DeleteArgs ==
  {Args(props, DocInfo(TRUE, Undefined, Undefined, when, deleteOnlyColumns), ifExists,
        Undefined, Undefined, <<>>, <<>>) :
     props \in DocBindingLists, when \in WhenLists, ifExists \in Flag,
     deleteOnlyColumns \in {Undefined, True}}

(***************************************************************************)
(* The state machine: one call of one entry point.                         *)
(***************************************************************************)
Init ==
  /\ pc = "call"
  /\ query = <<>>
  /\ script = <<>>
  /\ isIdempotent = FALSE
  /\ isCounter = FALSE
  /\ \/ op = "select" /\ args \in SelectArgs
     \/ op = "insert" /\ args \in InsertArgs
     \/ op = "update" /\ args \in UpdateArgs
     \/ op = "delete" /\ args \in DeleteArgs

\* the mapper calls getSelect and selectParamsGetter with the same
\* propertiesInfo and limit
Select ==
  /\ pc = "call" /\ op = "select"
  /\ query' = getSelect(Table.name, Keyspace, args.propertiesInfo, args.fieldsInfo,
                        args.orderByColumns, args.allowFilter, args.limit)
  /\ script' = selectParamsGetter(args.propertiesInfo, args.limit)
  /\ pc' = "done"
  /\ UNCHANGED <<op, args, isIdempotent, isCounter>>

Return(result) ==
  /\ query' = result.query
  /\ script' = result.paramsGetter
  /\ isIdempotent' = result.isIdempotent
  /\ isCounter' = result.isCounter
  /\ pc' = "done"
  /\ UNCHANGED <<op, args>>

Insert ==
  /\ pc = "call" /\ op = "insert"
  /\ Return(getInsert(Table, Keyspace, args.propertiesInfo, args.docInfo,
                      args.ifNotExists, args.allowFilter))

Update ==
  /\ pc = "call" /\ op = "update"
  /\ Return(getUpdate(Table, Keyspace, args.propertiesInfo, args.docInfo, args.when,
                      args.ifExists, args.allowFilter))

Delete ==
  /\ pc = "call" /\ op = "delete"
  /\ Return(getDelete(Table, Keyspace, args.propertiesInfo, args.docInfo, args.when,
                      args.ifExists))

Next == Select \/ Insert \/ Update \/ Delete

Spec == Init /\ [][Next]_vars

\* what the getter of the call returns for the document the bindings were read from
params == RunGetter(script, args.propertiesInfo, args.docInfo)

(***************************************************************************)
(* Vocabulary of the properties.                                           *)
(***************************************************************************)
Done(o) == pc = "done" /\ op = o
Range(s) == {s[i] : i \in 1..Len(s)}
Positions(s, Test(_)) == SelectSeq([i \in 1..Len(s) |-> i], LAMBDA i : Test(s[i]))
Placeholders(q) == Len(Positions(q, LAMBDA t : t = "?"))

ttlOf == DocInfoField(args.docInfo, "ttl")
Survives(b) == InSchema(Table, b.columnName)
IsKey(b) == b.columnName \in PrimaryKeys(Table)
survivors == SelectSeq(args.propertiesInfo, Survives)
mutated == SelectSeq(survivors, LAMBDA b : ~IsKey(b))
identifying == SelectSeq(survivors, IsKey)
\* exactly the call shapes the caller contract allows for UPDATE and DELETE
OneCondition == ~(Truthy(args.ifExists) /\ Len(args.when) > 0)

\* the clause a token of a query text stands in
ClauseKeywords == {"USING TTL", "SET", "WHERE", "IF", "LIMIT", "VALUES"}
ClauseAt(q, i) == q[CHOOSE j \in 1..i : q[j] \in ClauseKeywords
                                        /\ \A k \in (j + 1)..i : q[k] \notin ClauseKeywords]
\* what the placeholder at position i of a SELECT, UPDATE or DELETE text is for:
\* its clause, and the column of its comparison or assignment
OwnerAt(q, i) ==
  IF q[i - 1] \in {"USING TTL", "LIMIT"} THEN <<q[i - 1], q[i - 1]>>
  ELSE <<ClauseAt(q, i), q[i - 2]>>
PlaceholderOwners(q) == Map(Positions(q, LAMBDA t : t = "?"), LAMBDA i : OwnerAt(q, i))

RECURSIVE ColumnOfProperty(_, _)
ColumnOfProperty(bindings, prop) ==
  IF bindings = <<>> THEN "?"
  ELSE IF bindings[1].propertyName = prop THEN bindings[1].columnName
  ELSE ColumnOfProperty(Tail(bindings), prop)

\* what an element of the getter's array is for
SlotOwner(e) ==
  IF e.tk = "hole" THEN <<"hole", "hole">>
  ELSE IF e.obj = "docInfo"
    THEN IF e.prop = "ttl" THEN <<"USING TTL", "USING TTL">> ELSE <<"LIMIT", "LIMIT">>
  ELSE IF e.obj = "docInfo.when" THEN <<"IF", ColumnOfProperty(args.when, e.prop)>>
  ELSE LET c == ColumnOfProperty(args.propertiesInfo, e.prop)
       IN <<IF op = "update" /\ c \notin PrimaryKeys(Table) THEN "SET" ELSE "WHERE", c>>
slots == ArrayLiteral(script, FALSE)
SlotOwners == Map(slots, SlotOwner)

\* the value the specification has a binding emit
Emitted(propertyName, fromModel, v) ==
  IF fromModel THEN Converted(propertyName, v) ELSE v
ValueParam(b) == Emitted(b.propertyName, b.fromModel, b.value)
AssignmentParam(b) ==
  Emitted(b.propertyName, b.fromModel,
          IF IsQueryAssignment(b.value) THEN b.value.value[1] ELSE b.value)
RECURSIVE ConditionParams(_, _, _)
ConditionParams(propertyName, fromModel, v) ==
  IF IsQueryOperator(v) /\ v.hasChildValues
    THEN ConditionParams(propertyName, fromModel, v.value[1])
         \o ConditionParams(propertyName, fromModel, v.value[2])
  ELSE IF IsQueryOperator(v) /\ v.isInOperator
    THEN <<IF fromModel
             THEN Arr([i \in 1..Len(v.value[1].value) |->
                         Converted(propertyName, v.value[1].value[i])])
             ELSE v.value[1]>>
  ELSE IF IsQueryOperator(v) THEN <<Emitted(propertyName, fromModel, v.value[1])>>
  ELSE <<Emitted(propertyName, fromModel, v)>>
RECURSIVE Flatten(_)
Flatten(ss) == IF ss = <<>> THEN <<>> ELSE ss[1] \o Flatten(Tail(ss))
ConditionListParams(bindings) ==
  Flatten(Map(bindings, LAMBDA b : ConditionParams(b.propertyName, b.fromModel, b.value)))

(***************************************************************************)
(* C1.  UPDATE, with at most one of ifExists and a non-empty when: the     *)
(* placeholders of the query text and the elements the getter returns      *)
(* correspond one for one in the same order; a numeric ttl puts            *)
(* "USING TTL ?" between the table reference and SET and the ttl first in  *)
(* the parameters; without a ttl neither is there.                         *)
(***************************************************************************)
C1_UpdatePlaceholdersMatchParams ==
  (Done("update") /\ OneCondition) =>
    /\ PlaceholderOwners(query) = SlotOwners
    /\ IsNumber(ttlOf) =>
         /\ SubSeq(query, 5, 7) = <<"USING TTL", "?", "SET">>
         /\ Len(params) > 0 /\ params[1] = ttlOf
    /\ ~IsNumber(ttlOf) =>
         /\ "USING TTL" \notin Range(query)
         /\ \A i \in 1..Len(slots) : slots[i].obj # "docInfo"

(***************************************************************************)
(* C2.  INSERT: the getter returns the values of the surviving bindings in *)
(* caller order, then the ttl iff it is a number; that is one value for    *)
(* each placeholder of the query text, for any number of surviving         *)
(* bindings, zero included.                                                *)
(***************************************************************************)
C2_InsertParams ==
  Done("insert") =>
    /\ params = Map(survivors, ValueParam)
                \o (IF IsNumber(ttlOf) THEN <<ttlOf>> ELSE <<>>)
    /\ Len(params) = Placeholders(query)
    /\ Placeholders(query) = Len(survivors) + (IF IsNumber(ttlOf) THEN 1 ELSE 0)

(***************************************************************************)
(* C3.  DELETE, with at most one of ifExists and a non-empty when: the     *)
(* getter returns the identifying values in caller order, then the values  *)
(* of the when conditions in order, one for each placeholder of the query  *)
(* text and in their order, also without an identifying binding and with   *)
(* or without deleteOnlyColumns.                                           *)
(***************************************************************************)
C3_DeleteParams ==
  (Done("delete") /\ OneCondition) =>
    /\ params = Map(identifying, ValueParam) \o ConditionListParams(args.when)
    /\ PlaceholderOwners(query) = SlotOwners

(***************************************************************************)
(* C4.  SELECT: the getter built on the same where bindings and limit      *)
(* returns the values of the where bindings in order, then the limit iff   *)
(* it is a number; that is one value for each placeholder of the query     *)
(* text (the WHERE placeholders and "LIMIT ?"), in their order, for every  *)
(* where list, the empty one included.                                     *)
(***************************************************************************)
C4_SelectParams ==
  Done("select") =>
    /\ params = ConditionListParams(args.propertiesInfo)
                \o (IF IsNumber(args.limit) THEN <<args.limit>> ELSE <<>>)
    /\ Len(params) = Placeholders(query)
    /\ PlaceholderOwners(query) = SlotOwners
    /\ IsNumber(args.limit) <=> "LIMIT" \in Range(query)

C4_Witness ==
  /\ Done("select")
  /\ args.propertiesInfo = <<>>
  /\ IsNumber(args.limit)
  /\ params = <<args.limit>>
  /\ Placeholders(query) = 1

(***************************************************************************)
(* C5.  UPDATE: a non-empty when list or ifExists = true gives             *)
(* isIdempotent = false whatever the columns; a mutated counter column     *)
(* gives isIdempotent = false and isCounter = true; a mutated list column  *)
(* bound to a QueryAssignment gives isIdempotent = false; wherever the     *)
(* binding stands in the list.                                             *)
(***************************************************************************)
ColumnType(b) == Table.columnsByName[b.columnName]

\* C5: conditional updates, mutated counter columns and mutated list
\* assignments are not idempotent, at any position of the binding
C5_UpdateFlags ==
  Done("update") =>
    /\ (Len(args.when) > 0 \/ args.ifExists = True) => ~isIdempotent
    /\ \A i \in 1..Len(mutated) :
         /\ ColumnType(mutated[i]) = dataTypes.counter => ~isIdempotent /\ isCounter
         /\ (ColumnType(mutated[i]) = dataTypes.list /\ IsQueryAssignment(mutated[i].value))
              => ~isIdempotent

\* a counter binding followed by an ordinary one, in an unconditional update
C5_Witness ==
  /\ Done("update")
  /\ Len(args.when) = 0 /\ ~Truthy(args.ifExists)
  /\ Len(mutated) = 2
  /\ ColumnType(mutated[1]) = dataTypes.counter
  /\ ColumnType(mutated[2]) = dataTypes.text
  /\ ~isIdempotent /\ isCounter

(***************************************************************************)
(* C6.  INSERT returns isIdempotent = false iff ifNotExists is true;       *)
(* DELETE returns isIdempotent = true iff when is empty and ifExists is    *)
(* not set; in both the flag is false exactly when the query text carries  *)
(* a conditional suffix (IF NOT EXISTS, IF EXISTS or IF <condition>).      *)
(***************************************************************************)
HasConditionalSuffix(q) == Range(q) \cap {"IF NOT EXISTS", "IF EXISTS", "IF"} # {}

\* C6: isIdempotent of INSERT and DELETE is the absence of a conditional suffix
C6_InsertDeleteIdempotent ==
  /\ Done("insert") =>
       /\ ~isIdempotent <=> args.ifNotExists = True
       /\ ~isIdempotent <=> HasConditionalSuffix(query)
  /\ Done("delete") =>
       /\ isIdempotent <=> (Len(args.when) = 0 /\ args.ifExists # True)
       /\ ~isIdempotent <=> HasConditionalSuffix(query)

C6_Witness ==
  /\ Done("delete")
  /\ Len(args.when) = 0 /\ args.ifExists = True
  /\ ~isIdempotent
  /\ query[Len(query)] = "IF EXISTS"

(***************************************************************************)
(* C7.  INSERT, UPDATE, DELETE: a binding whose column is not in the       *)
(* schema is neither a column of the query text nor read by the getter;    *)
(* a binding whose column is in the schema is in both; the surviving       *)
(* bindings keep the caller's order in the text and in the getter (within  *)
(* the mutated and within the identifying bindings for UPDATE / DELETE).   *)
(***************************************************************************)
Modifies == pc = "done" /\ op \in {"insert", "update", "delete"}
ColumnNames(bindings) == Map(bindings, LAMBDA b : b.columnName)

\* the query text without its conditional suffix and what follows it
QueryBody(q) ==
  LET suffix == Positions(q, LAMBDA t : t \in {"IF NOT EXISTS", "IF EXISTS", "IF"})
  IN IF suffix = <<>> THEN q ELSE SubSeq(q, 1, suffix[1] - 1)

\* the columns of the placeholders of one clause, in text order
ClauseColumns(q, clause) ==
  Map(SelectSeq(PlaceholderOwners(QueryBody(q)), LAMBDA o : o[1] = clause), LAMBDA o : o[2])
\* the column list of an INSERT
InsertColumns(q) ==
  LET open == Positions(q, LAMBDA t : t = "(")[1]
      close == Positions(q, LAMBDA t : t = ")")[1]
  IN SelectSeq(SubSeq(q, open + 1, close - 1), LAMBDA t : t # ",")
\* the columns of the document properties the getter reads, in order
DocSlotColumns ==
  Map(SelectSeq(slots, LAMBDA e : e.tk = "expr" /\ e.obj = "doc"),
      LAMBDA e : ColumnOfProperty(args.propertiesInfo, e.prop))

InTextAndGetter(b) ==
  b.columnName \in Range(QueryBody(query)) /\ b.columnName \in Range(DocSlotColumns)
InNeither(b) ==
  b.columnName \notin Range(QueryBody(query)) /\ b.columnName \notin Range(DocSlotColumns)

CallerOrderKept ==
  /\ op = "insert" =>
       /\ InsertColumns(query) = ColumnNames(survivors)
       /\ DocSlotColumns = ColumnNames(survivors)
  /\ op = "update" =>
       /\ ClauseColumns(query, "SET") = ColumnNames(mutated)
       /\ ClauseColumns(query, "WHERE") = ColumnNames(identifying)
       /\ DocSlotColumns = ColumnNames(mutated) \o ColumnNames(identifying)
  /\ op = "delete" =>
       /\ ClauseColumns(query, "WHERE") = ColumnNames(identifying)
       /\ DocSlotColumns = ColumnNames(identifying)

\* C7 as stated: dropped bindings in neither, every surviving binding in both,
\* caller order kept
C7_EverySurvivorInBoth ==
  Modifies =>
    /\ \A i \in 1..Len(args.propertiesInfo) :
         IF Survives(args.propertiesInfo[i])
           THEN InTextAndGetter(args.propertiesInfo[i])
           ELSE InNeither(args.propertiesInfo[i])
    /\ CallerOrderKept

\* C7 as amended: in a DELETE only the identifying bindings are in both; a
\* surviving binding on a non-key column is never read by the getter and is
\* a column of the text iff deleteOnlyColumns is set.
C7_SymmetricDropping ==
  Modifies =>
    /\ \A i \in 1..Len(args.propertiesInfo) :
         LET b == args.propertiesInfo[i]
         IN IF ~Survives(b) THEN InNeither(b)
            ELSE IF op = "delete" /\ ~IsKey(b)
              THEN /\ b.columnName \notin Range(DocSlotColumns)
                   /\ b.columnName \in Range(QueryBody(query))
                        <=> Truthy(args.docInfo.deleteOnlyColumns)
            ELSE InTextAndGetter(b)
    /\ CallerOrderKept

\* an unknown column in front of a surviving one, dropped from an update
C7_Witness ==
  /\ Done("update")
  /\ Len(args.propertiesInfo) = 2
  /\ ~Survives(args.propertiesInfo[1])
  /\ Survives(args.propertiesInfo[2]) /\ ~IsKey(args.propertiesInfo[2])
  /\ ClauseColumns(query, "SET") = <<args.propertiesInfo[2].columnName>>
  /\ DocSlotColumns = <<args.propertiesInfo[2].columnName>>

(***************************************************************************)
(* C8.  DELETE with deleteOnlyColumns: the text is "DELETE <the surviving  *)
(* non-key columns in caller order, comma-joined> FROM ks.t WHERE ...",    *)
(* or "DELETE FROM ks.t WHERE ..." when there is none; the listed columns  *)
(* add no placeholder and the getter reads no value for them.              *)
(***************************************************************************)
\* the text up to and including WHERE
DeleteHead(q) == SubSeq(q, 1, Positions(q, LAMBDA t : t = "WHERE")[1])
RECURSIVE CommaList(_)
CommaList(names) ==
  IF names = <<>> THEN <<>>
  ELSE IF Len(names) = 1 THEN names
  ELSE <<names[1], ",">> \o CommaList(Tail(names))

\* C8: the column list of a DELETE with deleteOnlyColumns, without placeholders
\* or parameters of its own
C8_DeleteOnlyColumns ==
  (Done("delete") /\ Truthy(args.docInfo.deleteOnlyColumns)) =>
    /\ DeleteHead(query) = <<"DELETE">> \o CommaList(ColumnNames(mutated))
                           \o <<"FROM", Keyspace, ".", Table.name, "WHERE">>
    /\ Placeholders(DeleteHead(query)) = 0
    /\ Placeholders(QueryBody(query)) = Len(identifying)
    /\ \A i \in 1..Len(DocSlotColumns) : DocSlotColumns[i] \in PrimaryKeys(Table)

C8_Witness ==
  /\ Done("delete") /\ Truthy(args.docInfo.deleteOnlyColumns)
  /\ Len(mutated) = 1 /\ Len(identifying) = 1
  /\ query[2] = mutated[1].columnName /\ query[3] = "FROM"
  /\ Len(params) = 1

(***************************************************************************)
(* C9.  UPDATE: a mutated binding bound to a QueryAssignment renders       *)
(* "col = col <sign> ?", or "col = ? <sign> col" when inverted, with one   *)
(* placeholder, and the getter returns for it the raw value of the         *)
(* assignment (converted when the binding has a conversion), never the     *)
(* QueryAssignment; a mutated binding with a plain value renders "col = ?" *)
(* and returns the document value.  The parameter of the k-th mutated      *)
(* binding is the k-th after the ttl parameter, when there is one.         *)
(***************************************************************************)
\* the parts of a token sequence between the separators sep
RECURSIVE Split(_, _)
Split(s, sep) ==
  LET at == Positions(s, LAMBDA t : t = sep)
  IN IF at = <<>> THEN <<s>>
     ELSE <<SubSeq(s, 1, at[1] - 1)>> \o Split(SubSeq(s, at[1] + 1, Len(s)), sep)
\* the assignments between SET and WHERE
SetFragments(q) ==
  LET set == Positions(q, LAMBDA t : t = "SET")[1]
      where == Positions(q, LAMBDA t : t = "WHERE")[1]
  IN IF where = set + 1 THEN <<>> ELSE Split(SubSeq(q, set + 1, where - 1), ",")
ttlParams == IF IsNumber(ttlOf) THEN 1 ELSE 0

RECURSIVE RenderCondition(_, _)
RenderCondition(c, v) ==
  IF IsQueryOperator(v) /\ v.hasChildValues
    THEN RenderCondition(c, v.value[1]) \o <<v.key>> \o RenderCondition(c, v.value[2])
  ELSE IF IsQueryOperator(v) THEN <<c, v.key, "?">>
  ELSE <<c, "=", "?">>
RECURSIVE RenderConditions(_)
RenderConditions(bindings) ==
  IF bindings = <<>> THEN <<>>
  ELSE RenderCondition(bindings[1].columnName, bindings[1].value)
       \o (IF Len(bindings) = 1 THEN <<>> ELSE <<"AND">> \o RenderConditions(Tail(bindings)))

\* the condition of a text: what follows keyword, up to the next clause
ConditionText(q, keyword) ==
  LET from == Positions(q, LAMBDA t : t = keyword)[1]
      ends == Positions(q, LAMBDA t : t \in {"ORDER BY", "LIMIT", "ALLOW FILTERING"})
  IN SubSeq(q, from + 1, IF ends = <<>> THEN Len(q) ELSE ends[1] - 1)
\* the values the getter returns out of object obj
ParamsReadFrom(obj) ==
  Map(SelectSeq(slots, LAMBDA e : e.tk = "expr" /\ e.obj = obj),
      LAMBDA e : EvalSlot(e, args.propertiesInfo, args.docInfo))
AsManyParamsAsPlaceholders(bindings) ==
  \A i \in 1..Len(bindings) :
    Len(ConditionParams(bindings[i].propertyName, bindings[i].fromModel, bindings[i].value))
      = Placeholders(RenderCondition(bindings[i].columnName, bindings[i].value))
RendersWhen == pc = "done" /\ op \in {"update", "delete"}
               /\ Len(args.when) > 0 /\ args.ifExists # True

\* C10: condition text and condition parameters agree leaf by leaf
C10_ConditionParams ==
  /\ (Done("select") /\ Len(args.propertiesInfo) > 0) =>
       /\ ConditionText(query, "WHERE") = RenderConditions(args.propertiesInfo)
       /\ ParamsReadFrom("doc") = ConditionListParams(args.propertiesInfo)
       /\ Placeholders(ConditionText(query, "WHERE")) = Len(ParamsReadFrom("doc"))
       /\ AsManyParamsAsPlaceholders(args.propertiesInfo)
  /\ RendersWhen =>
       /\ ConditionText(query, "IF") = RenderConditions(args.when)
       /\ ParamsReadFrom("docInfo.when") = ConditionListParams(args.when)
       /\ Placeholders(ConditionText(query, "IF")) = Len(ParamsReadFrom("docInfo.when"))
       /\ AsManyParamsAsPlaceholders(args.when)

\* a pair of a pair and an IN, with a conversion: three parameters, the last an array
C10_Witness ==
  /\ Done("select")
  /\ Len(args.propertiesInfo) = 1
  /\ args.propertiesInfo[1].fromModel
  /\ args.propertiesInfo[1].value =
       QueryOperatorPair("OR", QueryOperatorPair("OR", qGt("name"), qIn("name")), qIn("name"))
  /\ ConditionText(query, "WHERE") =
       <<"name", ">", "?", "OR", "name", "IN", "?", "OR", "name", "IN", "?">>
  /\ Len(params) >= 3
  /\ params[1] = Converted("nameProp", Payload("name", ">"))
  /\ params[3] = Arr(<<Converted("nameProp", Payload("name", "[0]")),
                       Converted("nameProp", Payload("name", "[1]"))>>)

(***************************************************************************)
(* C11.  INSERT, UPDATE, DELETE depend on the schema and the shape of the  *)
(* statement only: a second construction on the same table whose bindings  *)
(* have the same columns, properties and value kinds and whose options     *)
(* have the same clauses, but other literal payloads, returns the same     *)
(* query text, isIdempotent and isCounter.                                 *)
(***************************************************************************)
\* the same value with other payloads: every literal renamed, every number
\* changed, every IN array one element longer
RECURSIVE OtherPayload(_)
OtherPayload(v) ==
  IF v.kind = "lit" THEN Lit(v.key \o "'")
  ELSE IF v.kind = "number" THEN Num(v.key \o "'")
  ELSE IF v.kind = "array"
    THEN Arr([i \in 1..Len(v.value) |-> OtherPayload(v.value[i])] \o <<Lit("more")>>)
  ELSE IF v.kind \in {"QueryOperator", "QueryAssignment"}
    THEN [v EXCEPT !.value = [i \in 1..Len(v.value) |-> OtherPayload(v.value[i])]]
  ELSE v
OtherBindings(bindings) ==
  [i \in 1..Len(bindings) |-> [bindings[i] EXCEPT !.value = OtherPayload(bindings[i].value)]]
OtherDocInfo(docInfo) ==
  [docInfo EXCEPT !.ttl = OtherPayload(docInfo.ttl),
                  !.when = OtherBindings(docInfo.when)]
\* what the entry point of the state returns for the call with other payloads
ResultOnOtherPayloads ==
  CASE op = "insert" ->
         getInsert(Table, Keyspace, OtherBindings(args.propertiesInfo),
                   OtherDocInfo(args.docInfo), args.ifNotExists, args.allowFilter)
    [] op = "update" ->
         getUpdate(Table, Keyspace, OtherBindings(args.propertiesInfo),
                   OtherDocInfo(args.docInfo), OtherBindings(args.when),
                   args.ifExists, args.allowFilter)
    [] op = "delete" ->
         getDelete(Table, Keyspace, OtherBindings(args.propertiesInfo),
                   OtherDocInfo(args.docInfo), OtherBindings(args.when), args.ifExists)

\* C11: the text and the flags of a statement do not depend on the payloads
C11_ShapeDecidesStatement ==
  Modifies =>
    /\ ResultOnOtherPayloads.query = query
    /\ ResultOnOtherPayloads.isIdempotent = isIdempotent
    /\ ResultOnOtherPayloads.isCounter = isCounter

\* an update of a plain value and an assignment under a when list with an IN
\* value and a ttl: all four payloads differ between the two constructions
C11_Witness ==
  /\ Done("update")
  /\ Len(mutated) = 2
  /\ ~IsQueryAssignment(mutated[1].value) /\ IsQueryAssignment(mutated[2].value)
  /\ IsNumber(ttlOf) /\ OtherDocInfo(args.docInfo).ttl # ttlOf
  /\ Len(args.when) = 1 /\ args.when[1].value.isInOperator
  /\ OtherBindings(args.when) # args.when
  /\ OtherBindings(args.propertiesInfo)[1].value # args.propertiesInfo[1].value
  /\ OtherBindings(args.propertiesInfo)[2].value.value # args.propertiesInfo[2].value.value
  /\ ResultOnOtherPayloads.query = query

(***************************************************************************)
(* C12.  The text of every SELECT ends with ALLOW FILTERING, whatever      *)
(* allowFilter is (true, false, undefined) and whichever of WHERE,         *)
(* ORDER BY and LIMIT are there; the clauses stand in the order            *)
(* projection, FROM, WHERE, ORDER BY, LIMIT, ALLOW FILTERING.              *)
(***************************************************************************)
\* where keyword stands in q: 0 when it is absent, -1 when it stands twice
ClauseAtIndex(q, keyword) ==
  LET at == Positions(q, LAMBDA t : t = keyword)
  IN IF at = <<>> THEN 0 ELSE IF Len(at) = 1 THEN at[1] ELSE -1
\* the clauses that are present stand once each and in this order
RECURSIVE InClauseOrder(_, _, _)
InClauseOrder(q, keywords, after) ==
  IF keywords = <<>> THEN TRUE
  ELSE LET at == ClauseAtIndex(q, keywords[1])
       IN IF at = 0 THEN InClauseOrder(q, Tail(keywords), after)
          ELSE at > after /\ InClauseOrder(q, Tail(keywords), at)

C12_SelectAllowsFiltering ==
  Done("select") =>
    /\ query[Len(query)] = "ALLOW FILTERING"
    /\ query[1] = "SELECT"
    /\ InClauseOrder(query, <<"SELECT", "FROM", "WHERE", "ORDER BY", "LIMIT", "ALLOW FILTERING">>, 0)
    /\ ClauseAtIndex(query, "FROM") > 2
    /\ ClauseAtIndex(query, "WHERE") # 0 <=> Len(args.propertiesInfo) > 0
    /\ ClauseAtIndex(query, "ORDER BY") # 0 <=> Len(args.orderByColumns) > 0
    /\ ClauseAtIndex(query, "LIMIT") # 0 <=> IsNumber(args.limit)

\* allowFilter = false, with all of WHERE, ORDER BY and LIMIT
C12_Witness ==
  /\ Done("select")
  /\ args.allowFilter = False
  /\ Len(args.propertiesInfo) > 0 /\ Len(args.orderByColumns) > 0 /\ IsNumber(args.limit)
  /\ SubSeq(query, Len(query) - 2, Len(query)) = <<"LIMIT", "?", "ALLOW FILTERING">>

(***************************************************************************)
(* C13.  UPDATE or DELETE given both ifExists = true and a non-empty when  *)
(* list: IF EXISTS wins for the whole statement.  The text ends with       *)
(* IF EXISTS and has no placeholder of a when condition, the getter        *)
(* returns no value of a when condition, and so it returns as many values  *)
(* as the text has placeholders.                                           *)
(***************************************************************************)
BothConditions ==
  pc = "done" /\ op \in {"update", "delete"}
  /\ args.ifExists = True /\ Len(args.when) > 0

C13_IfExistsWins ==
  BothConditions =>
    /\ query[Len(query)] = "IF EXISTS"
    /\ "IF" \notin Range(query)
    /\ Placeholders(query) = Placeholders(QueryBody(query))
    /\ ParamsReadFrom("docInfo.when") = <<>>
    /\ Len(params) = Placeholders(query)

(***************************************************************************)
(* C14.  The flags of an UPDATE are decided by the mutated (non-key)       *)
(* surviving bindings and the conditional flags alone: with an empty when  *)
(* list and ifExists not set, isIdempotent is true and isCounter false     *)
(* unless a surviving non-key binding is on a counter column, or on a list *)
(* column with a QueryAssignment.  A binding dropped for its column, and   *)
(* an identifying binding of any column type and value kind, never change  *)
(* isIdempotent or isCounter.                                              *)
(***************************************************************************)
OnCounter(b) == ColumnType(b) = dataTypes.counter
ListAssignment(b) == ColumnType(b) = dataTypes.list /\ IsQueryAssignment(b.value)
\* the update of the mutated bindings alone, all else equal
ResultOnMutatedOnly ==
  getUpdate(Table, Keyspace, mutated, args.docInfo, args.when, args.ifExists,
            args.allowFilter)

C14_MutatedBindingsDecideFlags ==
  Done("update") =>
    /\ (Len(args.when) = 0 /\ ~Truthy(args.ifExists)) =>
         /\ ~isIdempotent <=>
              \E i \in 1..Len(mutated) : OnCounter(mutated[i]) \/ ListAssignment(mutated[i])
         /\ isCounter <=> \E i \in 1..Len(mutated) : OnCounter(mutated[i])
    /\ isIdempotent = ResultOnMutatedOnly.isIdempotent
    /\ isCounter = ResultOnMutatedOnly.isCounter

====
